---- MODULE Spec2Model ----
(***************************************************************************)
(* go_marshal: the code generator for marshal.Marshallable                 *)
(* (tools/go_marshal/gomarshal) and the code it generates.                 *)
(*                                                                         *)
(* The generator's methods (marshalScalar, unmarshalScalar,                *)
(* marshalPrimitiveScalar, ..., emitMarshallableForPrimitiveNewtype) are   *)
(* operators on the generator state G = [is, ms, as, out]; out is the      *)
(* source buffer, a sequence of abstract statements, one per g.emit of a   *)
(* statement.  The generated methods are run by an interpreter of those    *)
(* statements with Go's semantics: integer conversions, slice expressions  *)
(* bounded by capacity, index expressions bounded by length, panics.       *)
(***************************************************************************)
EXTENDS Integers, Sequences, FiniteSets, TLC

(***************************************************************************)
(* Bounds of the model.                                                    *)
(***************************************************************************)
\* Longest field list of a generated struct.
MaxFields == 2
\* How many bytes a caller's buffer may be longer (or have more capacity)
\* than the type's SizeBytes(), and how many bytes of other objects' memory
\* follow the instance.
MaxExtra == 1

(***************************************************************************)
(* Type names.                                                             *)
(***************************************************************************)
Scalars == {"int8", "uint8", "byte", "int16", "uint16", "int32", "uint32", "int64", "uint64"}

\* Names validatePrimitiveNewtype rejects.
Rejected == {"int", "uint", "string"}

\* Is the named built-in integer type signed (Go's two's complement types).
Signed(t) == t \in {"int8", "int16", "int32", "int64"}

\* A faulty scalarSize: the 16-bit types are given the size of the 32-bit
\* ones.
scalarSizeWide(t) ==
  CASE t \in {"int8", "uint8", "byte"} -> [size |-> 1, unknownSize |-> FALSE]
    [] t \in {"int16", "uint16", "int32", "uint32"} -> [size |-> 4, unknownSize |-> FALSE]
    [] t \in {"int64", "uint64"}       -> [size |-> 8, unknownSize |-> FALSE]
    [] OTHER                           -> [size |-> 0, unknownSize |-> TRUE]

\* scalarSize returns (size, unknownSize) of the type named t.
scalarSize(t) ==
  CASE t \in {"int8", "uint8", "byte"} -> [size |-> 1, unknownSize |-> FALSE]
    [] t \in {"int16", "uint16"}       -> [size |-> 2, unknownSize |-> FALSE]
    [] t \in {"int32", "uint32"}       -> [size |-> 4, unknownSize |-> FALSE]
    [] t \in {"int64", "uint64"}       -> [size |-> 8, unknownSize |-> FALSE]
    [] OTHER                           -> [size |-> 0, unknownSize |-> TRUE]

\* A type declaration the generator is run on: `type T under` (a newtype on
\* an identifier) or `type T struct { fields }`.
Newtype(u) == [kind |-> "newtype", under |-> u, fields |-> << >>]
Struct(fs) == [kind |-> "struct", under |-> "", fields |-> fs]

\* The Marshallable types already declared in the package, which a field or
\* a newtype may name.  Point is the 8-byte composite of two int32; Padded
\* has a 1-byte field followed by a 2-byte field; Fd is a newtype on int32.
EnvDecl ==
  [Point  |-> Struct(<<"int32", "int32">>),
   Padded |-> Struct(<<"uint8", "uint16">>),
   Fd     |-> Newtype("int32")]

EnvTypes == DOMAIN EnvDecl

\* A name that is neither a built-in scalar nor a declared Marshallable.
Unresolved == {"float64"}

VARIABLES
  decl,   \* g.t: the declaration being generated, named T
  phase,  \* where the generator is: "new", "valid", "aborted", "emitted"
  diag,   \* the diagnostic abortAt printed, or NoDiag
  is,     \* g.is: external packages referenced by the generated code
  ms,     \* g.ms: Marshallable types referenced by the generated code
  as,     \* g.as: accessors of potentially non-packed fields
  out,    \* the source buffer: the statements emitted for T
  env,    \* the generated code of the package's other types: name -> statements
  host,   \* native byte order of the machine running the generated code
  mem,    \* the memory of the instance x, MemSize("T") bytes
  adj,    \* the bytes of memory that follow x (they belong to other objects)
  alive,  \* FALSE once the garbage collector has reclaimed x
  buf,    \* the caller's byte slice: [len, arr, of], arr the backing array (cap bytes)
  dst,    \* the instance y the last call unmarshalled into: [mem, adj], or NoDst
  usr,    \* the foreign address space at addr, or what the io.Writer was given
  call,   \* the CopyOut/CopyIn/WriteTo call in progress, or Idle
  ret,    \* what the last completed call returned
  hist,   \* the last completed call: its name and the slice it was given
  fdTable,  \* t.FDTable(): descriptor -> [file, cloexec], file 0 for a free slot
  refs,     \* the reference count of each file description
  sys,      \* the last syscall: its arguments, its result, the references it took
  cleanups, \* setup's slice of registered cleanup functions
  released, \* TRUE once cleanup.Release() was called
  step,     \* where setup (and then the test) is: [pc, i, by, msg]
  ran,      \* the cleanup functions run so far, in order
  cmd       \* the containerd process: "none", "running" or "killed"

vars == <<decl, phase, diag, is, ms, as, out, env, host, mem, adj, alive, buf, dst, usr, call, ret, hist,
          fdTable, refs, sys, cleanups, released, step, ran, cmd>>

kernVars == <<fdTable, refs, sys>>

testVars == <<cleanups, released, step, ran, cmd>>

genVars == <<decl, phase, diag, is, ms, as, out, env>>

(***************************************************************************)
(* Go integer values.  A value of an n-byte integer type is its two's      *)
(* complement bit pattern as n base-256 digits, least significant first:   *)
(* digit k+1 is byte(v >> (8*k)).                                          *)
(***************************************************************************)
Byte == 0..255

\* Go's conversion T(v) between integer types: v (of a signed type iff
\* signedFrom) is sign- or zero-extended, then truncated to w bytes.
Conv(w, signedFrom, d) ==
  LET fill == IF signedFrom /\ d[Len(d)] >= 128 THEN 255 ELSE 0
  IN  [k \in 1..w |-> IF k <= Len(d) THEN d[k] ELSE fill]

\* usermem.ByteOrder, the byte order of the wire format.
ByteOrder == "little"

\* encoding/binary: ByteOrder.PutUint16/32/64(b, v) for an n-byte v; the
\* result is the n bytes written to b[0..n).
PutUint(order, n, d) ==
  [i \in 1..n |-> IF order = "little" THEN d[i] ELSE d[n + 1 - i]]

\* encoding/binary: ByteOrder.Uint16/32/64(b) of the n bytes b.
Uint(order, n, b) ==
  [k \in 1..n |-> IF order = "little" THEN b[k] ELSE b[n + 1 - k]]

(***************************************************************************)
(* Declarations and the memory layout of their instances.                  *)
(***************************************************************************)
DeclOf(n) == IF n = "T" THEN decl ELSE EnvDecl[n]

\* Does the name resolve to a type with the Marshallable methods.
IsMarshallable(n) == n = "T" \/ n \in EnvTypes

Max(a, b) == IF a >= b THEN a ELSE b

RoundUp(n, a) == ((n + a - 1) \div a) * a

RECURSIVE AlignOf(_)
\* Alignment of the type: a scalar is aligned to its size, a struct to its
\* most aligned field (gc on amd64 and arm64).
AlignOf(n) ==
  IF n \in Scalars THEN scalarSize(n).size
  ELSE LET d == DeclOf(n)
       IN  IF d.kind = "newtype" THEN AlignOf(d.under)
           ELSE LET RECURSIVE M(_)
                    M(i) == IF i = 0 THEN 1 ELSE Max(AlignOf(d.fields[i]), M(i - 1))
                IN  M(Len(d.fields))

RECURSIVE MemSize(_)
RECURSIVE FieldOffset(_, _)
\* Offset in memory of field i of the struct type n (i = Len+1: the end of
\* the last field).
FieldOffset(n, i) ==
  LET fs == DeclOf(n).fields
  IN  IF i = 1 THEN 0
      ELSE LET end == FieldOffset(n, i - 1) + MemSize(fs[i - 1])
           IN  IF i <= Len(fs) THEN RoundUp(end, AlignOf(fs[i])) ELSE end

\* unsafe.Sizeof of the type named n.
MemSize(n) ==
  IF n \in Scalars THEN scalarSize(n).size
  ELSE LET d == DeclOf(n)
       IN  IF d.kind = "newtype" THEN MemSize(d.under)
           ELSE RoundUp(FieldOffset(n, Len(d.fields) + 1), AlignOf(n))

RECURSIVE Load(_, _, _)
\* The value of type n held in the MemSize(n) bytes m, on a machine of
\* native byte order h.
Load(n, m, h) ==
  IF n \in Scalars THEN Uint(h, Len(m), m)
  ELSE LET d == DeclOf(n)
       IN  IF d.kind = "newtype" THEN Load(d.under, m, h)
           ELSE [i \in 1..Len(d.fields) |->
                   Load(d.fields[i],
                        SubSeq(m, FieldOffset(n, i) + 1,
                               FieldOffset(n, i) + MemSize(d.fields[i])), h)]

RECURSIVE Store(_, _, _, _)
\* The memory m after the value v of type n is stored in it; padding bytes
\* keep their content.
Store(n, v, m, h) ==
  IF n \in Scalars THEN PutUint(h, Len(m), v)
  ELSE LET d == DeclOf(n)
       IN  IF d.kind = "newtype" THEN Store(d.under, v, m, h)
           ELSE LET RECURSIVE S(_, _)
                    S(i, mm) ==
                      IF i = 0 THEN mm
                      ELSE LET lo == FieldOffset(n, i)
                               sz == MemSize(d.fields[i])
                               fm == Store(d.fields[i], v[i], SubSeq(mm, lo + 1, lo + sz), h)
                           IN  S(i - 1, [k \in 1..Len(mm) |->
                                           IF k > lo /\ k <= lo + sz THEN fm[k - lo] ELSE mm[k]])
                IN  S(Len(d.fields), m)

(***************************************************************************)
(* The generator.  G = [t, is, ms, as, out]: the name of the type being    *)
(* generated and the three sets of interfaceGenerator, with the source     *)
(* buffer out.  A statement of the buffer is a record                      *)
(*   [k, m, acc, typ, n, conv]                                             *)
(* k the statement, m the buffer variable or method name, acc the accessor *)
(* (0 the receiver, i the i-th field), typ a type name, n a byte count,    *)
(* conv the conversions applied to the operand, innermost first.           *)
(***************************************************************************)
Stmt(k, m, acc, typ, n, conv) ==
  [k |-> k, m |-> m, acc |-> acc, typ |-> typ, n |-> n, conv |-> conv]

\* g.emit of one statement.
emit(G, s) == [G EXCEPT !.out = Append(@, s)]

recordUsedMarshallable(G, m) == [G EXCEPT !.ms = @ \cup {m}]

recordUsedImport(G, i) == [G EXCEPT !.is = @ \cup {i}]

recordPotentiallyNonPackedField(G, fieldName) == [G EXCEPT !.as = @ \cup {fieldName}]

\* newInterfaceGenerator: empty sets, and the type's own name in ms.
newInterfaceGenerator(t) ==
  recordUsedMarshallable([t |-> t, is |-> {}, ms |-> {}, as |-> {}, out |-> << >>], t)

\* The receiver accessor g.r, and the accessor of the i-th field.
Recv == 0

\* A faulty shift: it advances the buffer by one byte whatever was written.
shiftOne(G, bufVar, n) == emit(G, Stmt("shift", bufVar, Recv, "", 1, << >>))

\* shift emits `buf = buf[n:]`.
shift(G, bufVar, n) == emit(G, Stmt("shift", bufVar, Recv, "", n, << >>))

\* shiftDynamic emits `buf = buf[name.SizeBytes():]`.
shiftDynamic(G, bufVar, name) == emit(G, Stmt("shiftdyn", bufVar, name, "", 0, << >>))

\* marshalScalar writes a single scalar to a byte slice.
marshalScalar(G, accessor, typ, bufVar) ==
  CASE typ \in {"int8", "uint8", "byte"} ->
         shift(emit(G, Stmt("store0", bufVar, accessor, "", 1, <<"byte">>)), bufVar, 1)
    [] typ \in {"int16", "uint16"} ->
         shift(emit(recordUsedImport(G, "usermem"),
                    Stmt("put", bufVar, accessor, "", 2, <<"uint16">>)), bufVar, 2)
    [] typ \in {"int32", "uint32"} ->
         shift(emit(recordUsedImport(G, "usermem"),
                    Stmt("put", bufVar, accessor, "", 4, <<"uint32">>)), bufVar, 4)
    [] typ \in {"int64", "uint64"} ->
         shift(emit(recordUsedImport(G, "usermem"),
                    Stmt("put", bufVar, accessor, "", 8, <<"uint64">>)), bufVar, 8)
    [] OTHER ->
         shiftDynamic(emit(G, Stmt("marshal", bufVar, accessor, "", 0, << >>)),
                      bufVar, accessor)

\* unmarshalScalar reads a single scalar from a byte slice.
unmarshalScalar(G, accessor, typ, bufVar) ==
  CASE typ = "int8" ->
         shift(emit(G, Stmt("load0", bufVar, accessor, "", 1, <<"int8">>)), bufVar, 1)
    [] typ = "uint8" ->
         shift(emit(G, Stmt("load0", bufVar, accessor, "", 1, <<"uint8">>)), bufVar, 1)
    [] typ = "byte" ->
         shift(emit(G, Stmt("load0", bufVar, accessor, "", 1, << >>)), bufVar, 1)
    [] typ = "int16" ->
         shift(emit(recordUsedImport(G, "usermem"),
                    Stmt("get", bufVar, accessor, "", 2, <<"int16">>)), bufVar, 2)
    [] typ = "uint16" ->
         shift(emit(recordUsedImport(G, "usermem"),
                    Stmt("get", bufVar, accessor, "", 2, << >>)), bufVar, 2)
    [] typ = "int32" ->
         shift(emit(recordUsedImport(G, "usermem"),
                    Stmt("get", bufVar, accessor, "", 4, <<"int32">>)), bufVar, 4)
    [] typ = "uint32" ->
         shift(emit(recordUsedImport(G, "usermem"),
                    Stmt("get", bufVar, accessor, "", 4, << >>)), bufVar, 4)
    [] typ = "int64" ->
         shift(emit(recordUsedImport(G, "usermem"),
                    Stmt("get", bufVar, accessor, "", 8, <<"int64">>)), bufVar, 8)
    [] typ = "uint64" ->
         shift(emit(recordUsedImport(G, "usermem"),
                    Stmt("get", bufVar, accessor, "", 8, << >>)), bufVar, 8)
    [] OTHER ->
         recordPotentiallyNonPackedField(
           shiftDynamic(emit(G, Stmt("unmarshal", bufVar, accessor, "", 0, << >>)),
                        bufVar, accessor),
           accessor)

\* A faulty marshalPrimitiveScalar: it writes the low byte only of every
\* built-in type.
marshalPrimitiveScalarByte(G, accessor, typ, bufVar) ==
  IF scalarSize(typ).unknownSize
  THEN emit(G, Stmt("marshal", bufVar, accessor, typ, 0, << >>))
  ELSE emit(G, Stmt("store0", bufVar, accessor, "", 1, <<"byte">>))

\* A faulty marshalPrimitiveScalar: for a type that is no built-in one it
\* calls MarshalBytes on the accessor itself, without the conversion to the
\* underlying type.
marshalPrimitiveScalarSelf(G, accessor, typ, bufVar) ==
  CASE typ \in {"int8", "uint8", "byte"} ->
         emit(G, Stmt("store0", bufVar, accessor, "", 1, <<"byte">>))
    [] typ \in {"int16", "uint16"} ->
         emit(recordUsedImport(G, "usermem"),
              Stmt("put", bufVar, accessor, "", 2, <<"uint16">>))
    [] typ \in {"int32", "uint32"} ->
         emit(recordUsedImport(G, "usermem"),
              Stmt("put", bufVar, accessor, "", 4, <<"uint32">>))
    [] typ \in {"int64", "uint64"} ->
         emit(recordUsedImport(G, "usermem"),
              Stmt("put", bufVar, accessor, "", 8, <<"uint64">>))
    [] OTHER ->
         emit(G, Stmt("marshal", bufVar, accessor, "", 0, << >>))

\* marshalPrimitiveScalar writes a single primitive variable to a byte slice.
marshalPrimitiveScalar(G, accessor, typ, bufVar) ==
  CASE typ \in {"int8", "uint8", "byte"} ->
         emit(G, Stmt("store0", bufVar, accessor, "", 1, <<"byte">>))
    [] typ \in {"int16", "uint16"} ->
         emit(recordUsedImport(G, "usermem"),
              Stmt("put", bufVar, accessor, "", 2, <<"uint16">>))
    [] typ \in {"int32", "uint32"} ->
         emit(recordUsedImport(G, "usermem"),
              Stmt("put", bufVar, accessor, "", 4, <<"uint32">>))
    [] typ \in {"int64", "uint64"} ->
         emit(recordUsedImport(G, "usermem"),
              Stmt("put", bufVar, accessor, "", 8, <<"uint64">>))
    [] OTHER ->
         \* inner := (*typ)(x); inner.MarshalBytes(buf[:x.SizeBytes()])
         emit(G, Stmt("marshal", bufVar, accessor, typ, 0, << >>))

\* A faulty unmarshalPrimitiveScalar: it decodes every built-in type through
\* an 8-bit conversion, which loses the upper bytes of the wider ones.
unmarshalPrimitiveScalarNarrow(G, accessor, typ, bufVar, typeCast) ==
  IF scalarSize(typ).unknownSize
  THEN emit(G, Stmt("unmarshal", bufVar, accessor, typ, 0, << >>))
  ELSE emit(recordUsedImport(G, "usermem"),
            Stmt("get", bufVar, accessor, "", scalarSize(typ).size, <<"int8", typeCast>>))

\* unmarshalPrimitiveScalar reads a single primitive variable from a byte slice.
unmarshalPrimitiveScalar(G, accessor, typ, bufVar, typeCast) ==
  CASE typ = "int8" ->
         emit(G, Stmt("load0", bufVar, accessor, "", 1, <<"int8", typeCast>>))
    [] typ = "uint8" ->
         emit(G, Stmt("load0", bufVar, accessor, "", 1, <<"uint8", typeCast>>))
    [] typ = "byte" ->
         emit(G, Stmt("load0", bufVar, accessor, "", 1, <<typeCast>>))
    [] typ = "int16" ->
         emit(recordUsedImport(G, "usermem"),
              Stmt("get", bufVar, accessor, "", 2, <<"int16", typeCast>>))
    [] typ = "uint16" ->
         emit(recordUsedImport(G, "usermem"),
              Stmt("get", bufVar, accessor, "", 2, <<typeCast>>))
    [] typ = "int32" ->
         emit(recordUsedImport(G, "usermem"),
              Stmt("get", bufVar, accessor, "", 4, <<"int32", typeCast>>))
    [] typ = "uint32" ->
         emit(recordUsedImport(G, "usermem"),
              Stmt("get", bufVar, accessor, "", 4, <<typeCast>>))
    [] typ = "int64" ->
         emit(recordUsedImport(G, "usermem"),
              Stmt("get", bufVar, accessor, "", 8, <<"int64", typeCast>>))
    [] typ = "uint64" ->
         emit(recordUsedImport(G, "usermem"),
              Stmt("get", bufVar, accessor, "", 8, <<typeCast>>))
    [] OTHER ->
         \* inner := (*typ)(x); inner.UnmarshalBytes(buf[:x.SizeBytes()])
         emit(G, Stmt("unmarshal", bufVar, accessor, typ, 0, << >>))

\* The diagnostics of validatePrimitiveNewtype; NoDiag when it returns.
NoDiag == [msg |-> "", pos |-> ""]

\* abortAt(p, msg): the tool stops with msg at the source position of p.
abortAt(p, msg) == [msg |-> msg, pos |-> p]

\* A faulty validatePrimitiveNewtype: the case of 'uint' is missing.
validatePrimitiveNewtypeNoUint(t, pos) ==
  CASE t = "int"    -> abortAt(pos, "Type 'int' has ambiguous width, use int32 or int64")
    [] t = "string" -> abortAt(pos, "Type 'string' is dynamically-sized and cannot be marshalled, use a fixed size byte array '[...]byte' instead")
    [] OTHER        -> NoDiag

\* validatePrimitiveNewtype: the diagnostic it aborts with for the
\* underlying type name t (declared at position pos), or NoDiag.
validatePrimitiveNewtype(t, pos) ==
  CASE t \in {"int8", "uint8", "byte", "int16", "uint16", "int32", "uint32", "int64", "uint64"} ->
         NoDiag
    [] t = "int"    -> abortAt(pos, "Type 'int' has ambiguous width, use int32 or int64")
    [] t = "uint"   -> abortAt(pos, "Type 'uint' has ambiguous width, use uint32 or uint64")
    [] t = "string" -> abortAt(pos, "Type 'string' is dynamically-sized and cannot be marshalled, use a fixed size byte array '[...]byte' instead")
    [] OTHER        -> NoDiag

\* `func (x *T) name(...) {` and the closing `}`.
Func(name) == Stmt("func", name, Recv, "", 0, << >>)
End == Stmt("end", "", Recv, "", 0, << >>)

\* A faulty ViewTransfer: the view is given the size of the pointer x, 8
\* bytes, for its length and capacity.
ViewTransferPointerSize(G, xfer, retk) ==
  LET g1 == emit(G,  Stmt("noescape", "", Recv, "", 0, << >>))
      g2 == emit(g1, Stmt("hdr", "buf", Recv, "", 8, <<"", "">>))
      g3 == emit(g2, Stmt("xfer", xfer, Recv, "", 0, << >>))
      g4 == emit(g3, Stmt("keepalive", "", Recv, "", 0, << >>))
  IN  emit(g4, Stmt(retk, "", Recv, "", 0, << >>))

\* A faulty ViewTransfer: KeepAlive comes before the transfer.
ViewTransferEarlyKeepAlive(G, xfer, retk) ==
  LET g1 == emit(G,  Stmt("noescape", "", Recv, "", 0, << >>))
      g2 == emit(g1, Stmt("hdr", "buf", Recv, "", 0, <<"SizeBytes", "SizeBytes">>))
      g3 == emit(g2, Stmt("keepalive", "", Recv, "", 0, << >>))
      g4 == emit(g3, Stmt("xfer", xfer, Recv, "", 0, << >>))
  IN  emit(g4, Stmt(retk, "", Recv, "", 0, << >>))

\* The body CopyOut, CopyIn and WriteTo share: the escape-analysis bypass,
\* the slice header over the receiver's memory, the transfer, KeepAlive
\* and the return.
ViewTransfer(G, xfer, retk) ==
  LET g1 == emit(G,  Stmt("noescape", "", Recv, "", 0, << >>))
      g2 == emit(g1, Stmt("hdr", "buf", Recv, "", 0, <<"SizeBytes", "SizeBytes">>))
      g3 == emit(g2, Stmt("xfer", xfer, Recv, "", 0, << >>))
      g4 == emit(g3, Stmt("keepalive", "", Recv, "", 0, << >>))
  IN  emit(g4, Stmt(retk, "", Recv, "", 0, << >>))

\* emitMarshallableForPrimitiveNewtype outputs the Marshallable methods of
\* a newtype on the identifier nt.
emitMarshallableForPrimitiveNewtype(G, nt) ==
  LET sz  == scalarSize(nt)
      a1  == emit(G, Func("SizeBytes"))
      a2  == IF ~sz.unknownSize
             THEN emit(a1, Stmt("return", "", Recv, "", sz.size, << >>))
             ELSE emit(a1, Stmt("returnsize", "", Recv, nt, 0, << >>))
      a3  == emit(a2, End)
      b1  == emit(a3, Func("MarshalBytes"))
      b2  == marshalPrimitiveScalar(b1, Recv, nt, "dst")
      b3  == emit(b2, End)
      c1  == emit(b3, Func("UnmarshalBytes"))
      c2  == unmarshalPrimitiveScalar(c1, Recv, nt, "src", G.t)
      c3  == emit(c2, End)
      d1  == emit(c3, Func("Packed"))
      d2  == emit(d1, Stmt("returnbool", "", Recv, "", 1, << >>))
      d3  == emit(d2, End)
      e1  == emit(recordUsedImport(recordUsedImport(d3, "safecopy"), "unsafe"),
                  Func("MarshalUnsafe"))
      e2  == emit(e1, Stmt("safecopyin", "dst", Recv, "", 0, << >>))
      e3  == emit(e2, End)
      f1  == emit(recordUsedImport(recordUsedImport(e3, "safecopy"), "unsafe"),
                  Func("UnmarshalUnsafe"))
      f2  == emit(f1, Stmt("safecopyout", "src", Recv, "", 0, << >>))
      f3  == emit(f2, End)
      h1  == emit(recordUsedImport(recordUsedImport(f3, "marshal"), "usermem"),
                  Func("CopyOut"))
      h2  == ViewTransfer(h1, "CopyOutBytes", "retlen")
      h3  == emit(h2, End)
      i1  == emit(recordUsedImport(recordUsedImport(h3, "marshal"), "usermem"),
                  Func("CopyIn"))
      i2  == ViewTransfer(i1, "CopyInBytes", "retlen")
      i3  == emit(i2, End)
      j1  == emit(recordUsedImport(i3, "io"), Func("WriteTo"))
      j2  == ViewTransfer(j1, "Write", "retlen64")
  IN  emit(j2, End)

\* The struct generator's use of marshalScalar and unmarshalScalar: a
\* SizeBytes that adds the fields' sizes, and MarshalBytes and
\* UnmarshalBytes that handle the fields in declaration order.
RECURSIVE emitFields(_, _, _, _)
emitFields(G, fs, i, m) ==
  IF i > Len(fs) THEN G
  ELSE emitFields(IF m = "MarshalBytes" THEN marshalScalar(G, i, fs[i], "dst")
                  ELSE IF m = "UnmarshalBytes" THEN unmarshalScalar(G, i, fs[i], "src")
                  ELSE IF scalarSize(fs[i]).unknownSize
                       THEN emit(G, Stmt("addsize", "", i, fs[i], 0, << >>))
                       ELSE emit(G, Stmt("add", "", i, "", scalarSize(fs[i]).size, << >>)),
                  fs, i + 1, m)

emitMarshallableForStruct(G, fs) ==
  LET a == emit(emitFields(emit(G, Func("SizeBytes")), fs, 1, "SizeBytes"), End)
      b == emit(emitFields(emit(a, Func("MarshalBytes")), fs, 1, "MarshalBytes"), End)
  IN  emit(emitFields(emit(b, Func("UnmarshalBytes")), fs, 1, "UnmarshalBytes"), End)

\* What the generator emits for the declaration d of the type named t.
Generate(t, d) ==
  IF d.kind = "newtype"
  THEN emitMarshallableForPrimitiveNewtype(newInterfaceGenerator(t), d.under)
  ELSE emitMarshallableForStruct(newInterfaceGenerator(t), d.fields)

\* The statements of method name in the source buffer o (empty when the
\* method was not emitted).
Body(o, name) ==
  LET starts == {i \in 1..Len(o) : o[i].k = "func" /\ o[i].m = name}
  IN  IF starts = {} THEN << >>
      ELSE LET b == CHOOSE i \in starts : TRUE
               e == CHOOSE j \in (b + 1)..Len(o) :
                      o[j].k = "end" /\ \A l \in (b + 1)..(j - 1) : o[l].k # "end"
           IN  SubSeq(o, b + 1, e - 1)

\* The emitted code of method name of the type named tn.
MethodBody(tn, name) == Body(IF tn = "T" THEN out ELSE env[tn], name)

(***************************************************************************)
(* The generated code at run time.  An execution state of MarshalBytes or  *)
(* UnmarshalBytes is [arr, off, len, ok, val]: the backing array of the    *)
(* caller's slice, the slice variable (it starts off bytes into arr and    *)
(* is len bytes long; its capacity is what is left of arr), ok = FALSE     *)
(* once the runtime has panicked, and val the receiver's value.            *)
(***************************************************************************)
Cap(e) == Len(e.arr) - e.off

Panic(e) == [e EXCEPT !.ok = FALSE]

\* The static type of an accessor in a method of type tn.
TypeOfAcc(tn, acc) == IF acc = Recv THEN tn ELSE DeclOf(tn).fields[acc]

\* The built-in integer type under a type name (itself, or a newtype's).
ScalarUnder(t) == IF t \in Scalars THEN t ELSE DeclOf(t).under

Operand(e, acc) == IF acc = Recv THEN e.val ELSE e.val[acc]

Assign(e, acc, v) ==
  IF acc = Recv THEN [e EXCEPT !.val = v] ELSE [e EXCEPT !.val[acc] = v]

RECURSIVE EvalConv(_, _, _)
\* The operand d (signed iff sg) after the conversions cs, innermost first.
EvalConv(d, sg, cs) ==
  IF cs = << >> THEN d
  ELSE LET t == ScalarUnder(Head(cs))
       IN  EvalConv(Conv(scalarSize(t).size, sg, d), Signed(t), Tail(cs))

\* arr with bytes bs written at offset off.
WriteAt(arr, off, bs) ==
  [k \in 1..Len(arr) |-> IF k > off /\ k <= off + Len(bs) THEN bs[k - off] ELSE arr[k]]

RECURSIVE RunSize(_)
\* x.SizeBytes() for x of the type named tn: the emitted SizeBytes, run.
SizeBytesOf(tn) == RunSize(MethodBody(tn, "SizeBytes"))

\* The statements b of a SizeBytes method: what it returns.
RunSize(b) ==
  IF b = << >> THEN 0
  ELSE (IF Head(b).k \in {"return", "add"} THEN Head(b).n
        ELSE IF Head(b).k \in {"returnsize", "addsize"} THEN SizeBytesOf(Head(b).typ)
        ELSE 0) + RunSize(Tail(b))

RECURSIVE Run(_, _, _)
\* One statement s of a method of the type named tn, from state e.
Step(tn, s, e) ==
  IF ~e.ok THEN e
  ELSE
  CASE s.k = "store0" ->
         \* buf[0] = byte(acc): the index is checked against the length
         IF e.len < 1 THEN Panic(e)
         ELSE [e EXCEPT !.arr = WriteAt(@, e.off,
                 EvalConv(Operand(e, s.acc), Signed(ScalarUnder(TypeOfAcc(tn, s.acc))), s.conv))]
    [] s.k = "put" ->
         \* PutUintN(buf[:n], uintN(acc)): the slice bound is checked
         \* against the capacity
         IF s.n > Cap(e) THEN Panic(e)
         ELSE [e EXCEPT !.arr = WriteAt(@, e.off,
                 PutUint(ByteOrder, s.n,
                   EvalConv(Operand(e, s.acc), Signed(ScalarUnder(TypeOfAcc(tn, s.acc))), s.conv)))]
    [] s.k = "shift" ->
         \* buf = buf[n:]: the low bound is checked against the length
         IF s.n > e.len THEN Panic(e)
         ELSE [e EXCEPT !.off = @ + s.n, !.len = @ - s.n]
    [] s.k = "shiftdyn" ->
         LET n == SizeBytesOf(TypeOfAcc(tn, s.acc))
         IN  IF n > e.len THEN Panic(e)
             ELSE [e EXCEPT !.off = @ + n, !.len = @ - n]
    [] s.k \in {"marshal", "unmarshal"} ->
         \* acc.MarshalBytes(buf[:acc.SizeBytes()]), or the same on
         \* inner := (*typ)(acc)
         LET callee == IF s.typ # "" THEN s.typ ELSE TypeOfAcc(tn, s.acc)
             n      == SizeBytesOf(TypeOfAcc(tn, s.acc))
             name   == IF s.k = "marshal" THEN "MarshalBytes" ELSE "UnmarshalBytes"
         IN  IF n > Cap(e) THEN Panic(e)
             ELSE LET r == Run(callee, MethodBody(callee, name),
                               [e EXCEPT !.len = n, !.val = Operand(e, s.acc)])
                  IN  [Assign(e, s.acc, r.val) EXCEPT !.arr = r.arr, !.ok = r.ok]
    [] s.k = "load0" ->
         \* acc = T(buf[0])
         IF e.len < 1 THEN Panic(e)
         ELSE Assign(e, s.acc, EvalConv(<<e.arr[e.off + 1]>>, FALSE, s.conv))
    [] s.k = "get" ->
         \* acc = T(UintN(buf[:n]))
         IF s.n > Cap(e) THEN Panic(e)
         ELSE Assign(e, s.acc,
                EvalConv(Uint(ByteOrder, s.n, SubSeq(e.arr, e.off + 1, e.off + s.n)),
                         FALSE, s.conv))
    [] OTHER -> e

\* The statements b of a method of the type named tn, run in order from e.
Run(tn, b, e) ==
  IF b = << >> THEN e ELSE Run(tn, Tail(b), Step(tn, Head(b), e))

\* Does the generated code of the type named tn compile: every type whose
\* methods it calls is a declared Marshallable.
Compiles(tn) ==
  \A i \in 1..Len(out) :
     /\ out[i].k \in {"returnsize", "addsize"} => IsMarshallable(out[i].typ)
     /\ out[i].k \in {"marshal", "unmarshal", "shiftdyn"} =>
          IsMarshallable(IF out[i].typ # "" THEN out[i].typ ELSE TypeOfAcc(tn, out[i].acc))

\* x.MarshalBytes(b) for the instance in memory m and the slice b = [len, arr].
MarshalBytes(m, b) ==
  Run("T", MethodBody("T", "MarshalBytes"),
      [arr |-> b.arr, off |-> 0, len |-> b.len, ok |-> TRUE, val |-> Load("T", m, host)])

\* x.UnmarshalBytes(b).
UnmarshalBytes(m, b) ==
  Run("T", MethodBody("T", "UnmarshalBytes"),
      [arr |-> b.arr, off |-> 0, len |-> b.len, ok |-> TRUE, val |-> Load("T", m, host)])

\* The memory at the receiver's address: the instance, then what follows it.
Memory(m, a) == m \o a

\* A method whose body is a single safecopy call, run on the slice b with
\* the instance in m and a after it: [arr, mem, adj] afterwards.
\* safecopy.CopyIn(dst, ptr) and safecopy.CopyOut(ptr, src) take a slice and
\* an untyped pointer, and copy len(slice) bytes from or to the pointer.
RECURSIVE RunUnsafe(_, _)
RunUnsafe(body, st) ==
  IF body = << >> THEN st
  ELSE LET s == Head(body)
           all == Memory(st.mem, st.adj)
           nx ==
             CASE s.k = "safecopyin" ->
                    [st EXCEPT !.arr = WriteAt(@, 0, SubSeq(all, 1, st.len))]
               [] s.k = "safecopyout" ->
                    LET w == WriteAt(all, 0, SubSeq(st.arr, 1, st.len))
                    IN  [st EXCEPT !.mem = SubSeq(w, 1, Len(st.mem)),
                                   !.adj = SubSeq(w, Len(st.mem) + 1, Len(w))]
               [] OTHER -> st
       IN  RunUnsafe(Tail(body), nx)

\* x.MarshalUnsafe(b).
MarshalUnsafe(m, a, b) ==
  RunUnsafe(MethodBody("T", "MarshalUnsafe"),
            [arr |-> b.arr, len |-> b.len, mem |-> m, adj |-> a])

\* x.UnmarshalUnsafe(b).
UnmarshalUnsafe(m, a, b) ==
  RunUnsafe(MethodBody("T", "UnmarshalUnsafe"),
            [arr |-> b.arr, len |-> b.len, mem |-> m, adj |-> a])

\* x.Packed(): the emitted constant.
Packed == \E i \in 1..Len(MethodBody("T", "Packed")) :
             MethodBody("T", "Packed")[i].k = "returnbool" /\ MethodBody("T", "Packed")[i].n = 1

(***************************************************************************)
(* Inputs: the declarations the generator is run on, and the values of     *)
(* their instances.                                                        *)
(***************************************************************************)
\* Types a struct field may have.
FieldTypes == Scalars \cup {"Point", "Padded"}

\* Types of the fields of the longer structs.
SeqTypes == {"uint8", "int16", "Padded"}

RECURSIVE Seqs(_, _)
\* The sequences of exactly n elements of S.
Seqs(S, n) ==
  IF n = 0 THEN {<< >>}
  ELSE {Append(q, x) : q \in Seqs(S, n - 1), x \in S}

Decls ==
  {Newtype(u) : u \in Scalars \cup Rejected \cup EnvTypes \cup Unresolved}
    \cup {Struct(<<f>>) : f \in FieldTypes}
    \cup {EnvDecl.Point}
    \cup UNION {{Struct(fs) : fs \in Seqs(SeqTypes, n)} : n \in 2..MaxFields}

\* Source position of the underlying type's identifier in a declaration.
Pos(d) == <<"pos", d.under>>

Kinds == {"zero", "ones", "min", "max", "count"}

RECURSIVE SampleVal(_, _, _)
\* A value of the type named t: all zero bits, all one bits (-1, or the
\* largest unsigned), the smallest and the largest signed value, or a small
\* count: base + 1, which in a struct is the number of the field.
SampleVal(t, kind, base) ==
  IF t \in Scalars
  THEN LET w == scalarSize(t).size
       IN  [k \in 1..w |->
              CASE kind = "zero" -> 0
                [] kind = "ones" -> 255
                [] kind = "min"  -> IF k = w THEN 128 ELSE 0
                [] kind = "max"  -> IF k = w THEN 127 ELSE 255
                [] OTHER         -> IF k = 1 THEN base + 1 ELSE 0]
  ELSE LET d == DeclOf(t)
       IN  IF d.kind = "newtype" THEN SampleVal(d.under, kind, base)
           ELSE [i \in 1..Len(d.fields) |-> SampleVal(d.fields[i], kind, i - 1)]

\* The lengths of the buffers a caller passes, around n = SizeBytes():
\* empty, up to MaxExtra short, exact, up to MaxExtra long.
BufLens(n) == {0} \cup {l \in (n - MaxExtra)..(n + MaxExtra) : l >= 0}

\* A slice as the caller made it: every byte of its array is 0xEE.  Once a
\* marshal method has returned on it, by is the method and of the value x
\* had.
FreshBuf(l, c) == [len |-> l, arr |-> [i \in 1..c |-> 238], of |-> << >>, by |-> ""]

NoBuf == [len |-> 0, arr |-> << >>, of |-> << >>, by |-> ""]

NoDst == [mem |-> << >>, adj |-> << >>, alive |-> FALSE]

\* A new instance y of T: the zero value, followed by other objects.
ZeroDst ==
  [mem |-> [i \in 1..MemSize("T") |-> 0], adj |-> [i \in 1..MaxExtra |-> 204], alive |-> TRUE]

NoHist == [op |-> "", buf |-> NoBuf, req |-> 0, xn |-> 0, xerr |-> FALSE,
           modified |-> FALSE, mem |-> << >>]

NoRet == [op |-> "", ok |-> TRUE, n |-> 0, err |-> FALSE]

Idle == [op |-> "", pc |-> 0, len |-> 0, cap |-> 0, inflight |-> FALSE, moved |-> 0,
         n |-> 0, err |-> FALSE, kept |-> FALSE, modified |-> FALSE, mem0 |-> << >>]

NoUsr == [arr |-> << >>, ok |-> 0]

\* No task has made a syscall: an empty descriptor table and no file.
NoSys ==
  [op |-> "", oldfd |-> 0, newfd |-> 0, flags |-> {}, ret |-> 0, err |-> "",
   acq |-> << >>, rel |-> << >>, looked |-> 0, tab0 |-> << >>]

NoKernel ==
  /\ fdTable = << >>
  /\ refs = << >>
  /\ sys = NoSys

\* The test has not started.
NoTest ==
  /\ cleanups = << >>
  /\ released = FALSE
  /\ step = [pc |-> "", i |-> 0, by |-> "", msg |-> ""]
  /\ ran = << >>
  /\ cmd = "none"

Init ==
  /\ decl \in Decls
  /\ phase = "new"
  /\ diag = NoDiag
  /\ is = newInterfaceGenerator("T").is
  /\ ms = newInterfaceGenerator("T").ms
  /\ as = newInterfaceGenerator("T").as
  /\ out = newInterfaceGenerator("T").out
  /\ env = [n \in EnvTypes |-> Generate(n, EnvDecl[n]).out]
  /\ host \in {"little", "big"}
  /\ mem = << >>
  /\ adj = << >>
  /\ alive = FALSE
  /\ buf = NoBuf
  /\ dst = NoDst
  /\ usr = NoUsr
  /\ call = Idle
  /\ ret = NoRet
  /\ hist = NoHist
  /\ NoKernel
  /\ NoTest

G == [t |-> "T", is |-> is, ms |-> ms, as |-> as, out |-> out]

SetG(g) ==
  /\ is' = g.is
  /\ ms' = g.ms
  /\ as' = g.as
  /\ out' = g.out

runVars == <<host, mem, adj, alive, buf, dst, usr, call, ret, hist>>

\* The generator validates the underlying type of a newtype declaration;
\* abortAt ends the run of the tool.
Validate ==
  /\ phase = "new"
  /\ decl.kind = "newtype"
  /\ LET d == validatePrimitiveNewtype(decl.under, Pos(decl))
     IN  /\ diag' = d
         /\ phase' = IF d = NoDiag THEN "valid" ELSE "aborted"
  /\ UNCHANGED <<decl, is, ms, as, out, env>>
  /\ UNCHANGED runVars
  /\ UNCHANGED <<kernVars, testVars>>

\* The generator emits the methods of a validated newtype.
Emit ==
  /\ phase = "valid"
  /\ decl.kind = "newtype"
  /\ SetG(emitMarshallableForPrimitiveNewtype(G, decl.under))
  /\ phase' = "emitted"
  /\ UNCHANGED <<decl, diag, env>>
  /\ UNCHANGED runVars
  /\ UNCHANGED <<kernVars, testVars>>

\* The generator emits the field-by-field methods of a struct.
EmitStruct ==
  /\ phase = "new"
  /\ decl.kind = "struct"
  /\ SetG(emitMarshallableForStruct(G, decl.fields))
  /\ phase' = "emitted"
  /\ UNCHANGED <<decl, diag, env>>
  /\ UNCHANGED runVars
  /\ UNCHANGED <<kernVars, testVars>>

\* The generated code is compiled into a program that runs.
Runs == phase = "emitted" /\ Compiles("T")

\* The program creates the instance x with some value; its padding bytes
\* hold what the memory held before (0xAA).
New ==
  /\ Runs
  /\ mem = << >>
  /\ \E kind \in Kinds :
       mem' = Store("T", SampleVal("T", kind, 0), [i \in 1..MemSize("T") |-> 170], host)
  /\ adj' = [i \in 1..MaxExtra |-> 204]
  /\ alive' = TRUE
  /\ UNCHANGED <<host, buf, dst, usr, call, ret, hist>>
  /\ UNCHANGED genVars
  /\ UNCHANGED <<kernVars, testVars>>

\* The program calls methods on x between transfers, and no longer once
\* another goroutine has written to x.
HasInstance == Runs /\ alive /\ call = Idle /\ ~hist.modified

\* The caller makes a slice of length l and capacity c.
NewBuffer ==
  /\ HasInstance
  /\ \E l \in BufLens(SizeBytesOf("T")) :
       \E c \in {l, Max(l, SizeBytesOf("T"))} :
          buf' = FreshBuf(l, c)
  /\ dst' = NoDst
  /\ usr' = NoUsr
  /\ ret' = NoRet
  /\ hist' = NoHist
  /\ UNCHANGED <<host, mem, adj, alive, call>>
  /\ UNCHANGED genVars
  /\ UNCHANGED <<kernVars, testVars>>

HasBuffer == buf # NoBuf

IsFresh(b) == b = FreshBuf(b.len, Len(b.arr))

Before(op) == [NoHist EXCEPT !.op = op, !.buf = buf]

\* n := x.SizeBytes()
CallSizeBytes ==
  /\ HasInstance
  /\ ret' = [op |-> "SizeBytes", ok |-> TRUE, n |-> SizeBytesOf("T"), err |-> FALSE]
  /\ UNCHANGED <<host, mem, adj, alive, buf, dst, usr, call, hist>>
  /\ UNCHANGED genVars
  /\ UNCHANGED <<kernVars, testVars>>

\* p := x.Packed()
CallPacked ==
  /\ HasInstance
  /\ decl.kind = "newtype"
  /\ ret' = [op |-> "Packed", ok |-> TRUE, n |-> IF Packed THEN 1 ELSE 0, err |-> FALSE]
  /\ UNCHANGED <<host, mem, adj, alive, buf, dst, usr, call, hist>>
  /\ UNCHANGED genVars
  /\ UNCHANGED <<kernVars, testVars>>

\* x.MarshalBytes(buf), buf a slice nothing was written to yet
CallMarshalBytes ==
  /\ HasInstance
  /\ HasBuffer
  /\ IsFresh(buf)
  /\ LET r == MarshalBytes(mem, buf)
     IN  /\ buf' = [buf EXCEPT !.arr = r.arr,
                               !.of = IF r.ok THEN Load("T", mem, host) ELSE << >>,
                               !.by = IF r.ok THEN "MarshalBytes" ELSE ""]
         /\ ret' = [op |-> "MarshalBytes", ok |-> r.ok, n |-> 0, err |-> FALSE]
  /\ hist' = Before("MarshalBytes")
  /\ dst' = NoDst
  /\ UNCHANGED <<host, mem, adj, alive, usr, call>>
  /\ UNCHANGED genVars
  /\ UNCHANGED <<kernVars, testVars>>

\* var y T; y.UnmarshalBytes(buf)
CallUnmarshalBytes ==
  /\ HasInstance
  /\ HasBuffer
  /\ LET r == UnmarshalBytes(ZeroDst.mem, buf)
     IN  /\ dst' = [ZeroDst EXCEPT !.mem = Store("T", r.val, @, host)]
         /\ ret' = [op |-> "UnmarshalBytes", ok |-> r.ok, n |-> 0, err |-> FALSE]
  /\ hist' = Before("UnmarshalBytes")
  /\ UNCHANGED <<host, mem, adj, alive, buf, usr, call>>
  /\ UNCHANGED genVars
  /\ UNCHANGED <<kernVars, testVars>>

\* x.MarshalUnsafe(buf), buf a slice nothing was written to yet
CallMarshalUnsafe ==
  /\ HasInstance
  /\ HasBuffer
  /\ IsFresh(buf)
  /\ decl.kind = "newtype"
  /\ LET r == MarshalUnsafe(mem, adj, buf)
     IN  buf' = [buf EXCEPT !.arr = r.arr, !.of = Load("T", mem, host),
                            !.by = "MarshalUnsafe"]
  /\ ret' = [op |-> "MarshalUnsafe", ok |-> TRUE, n |-> 0, err |-> FALSE]
  /\ hist' = Before("MarshalUnsafe")
  /\ dst' = NoDst
  /\ UNCHANGED <<host, mem, adj, alive, usr, call>>
  /\ UNCHANGED genVars
  /\ UNCHANGED <<kernVars, testVars>>

\* var y T; y.UnmarshalUnsafe(buf)
CallUnmarshalUnsafe ==
  /\ HasInstance
  /\ HasBuffer
  /\ decl.kind = "newtype"
  /\ LET r == UnmarshalUnsafe(ZeroDst.mem, ZeroDst.adj, buf)
     IN  dst' = [ZeroDst EXCEPT !.mem = r.mem, !.adj = r.adj]
  /\ ret' = [op |-> "UnmarshalUnsafe", ok |-> TRUE, n |-> 0, err |-> FALSE]
  /\ hist' = Before("UnmarshalUnsafe")
  /\ UNCHANGED <<host, mem, adj, alive, buf, usr, call>>
  /\ UNCHANGED genVars
  /\ UNCHANGED <<kernVars, testVars>>

(***************************************************************************)
(* CopyOut, CopyIn and WriteTo, statement by statement.  CopyOut and       *)
(* WriteTo are called on x, CopyIn on a new instance y.  The transfer      *)
(* (task.CopyOutBytes, task.CopyInBytes, w.Write) moves the bytes of the   *)
(* slice one at a time and stops early at the first byte the other side    *)
(* does not take (usr.ok bytes are accessible).                            *)
(***************************************************************************)
Transfers == {"CopyOut", "CopyIn", "WriteTo"}

InCall == call.op # ""

\* The statement the call in progress is at.
Cur == MethodBody("T", call.op)[call.pc]

AtStmt(ks) ==
  /\ InCall
  /\ call.pc <= Len(MethodBody("T", call.op))
  /\ Cur.k \in ks

\* The memory the receiver's address points to, and whether the receiver
\* is still allocated.
RecvMem == IF call.op = "CopyIn" THEN Memory(dst.mem, dst.adj) ELSE Memory(mem, adj)

RecvAlive == IF call.op = "CopyIn" THEN dst.alive ELSE alive

\* The receiver's memory becomes w (the instance, then what follows it).
SetRecvMem(w, live) ==
  IF call.op = "CopyIn"
  THEN /\ dst' = [mem |-> SubSeq(w, 1, Len(dst.mem)),
                  adj |-> SubSeq(w, Len(dst.mem) + 1, Len(w)), alive |-> live]
       /\ UNCHANGED <<mem, adj, alive>>
  ELSE /\ mem' = SubSeq(w, 1, Len(mem))
       /\ adj' = SubSeq(w, Len(mem) + 1, Len(w))
       /\ alive' = live
       /\ UNCHANGED dst

\* The program calls x.CopyOut(task, addr), y.CopyIn(task, addr) or
\* x.WriteTo(w); ok bytes at addr are accessible (the writer takes ok bytes).
Begin ==
  /\ HasInstance
  /\ decl.kind = "newtype"
  /\ \E op \in Transfers, ok \in {k \in BufLens(SizeBytesOf("T")) : k <= SizeBytesOf("T")} :
       /\ call' = [Idle EXCEPT !.op = op, !.pc = 1,
                               !.mem0 = IF op = "CopyIn" THEN ZeroDst.mem ELSE mem]
       /\ usr' = [arr |-> [i \in 1..(SizeBytesOf("T") + MaxExtra) |->
                             IF op = "CopyIn" THEN 64 + i ELSE 0],
                  ok |-> ok]
       /\ dst' = IF op = "CopyIn" THEN ZeroDst ELSE NoDst
  /\ buf' = NoBuf
  /\ ret' = NoRet
  /\ hist' = NoHist
  /\ UNCHANGED <<host, mem, adj, alive>>
  /\ UNCHANGED genVars
  /\ UNCHANGED <<kernVars, testVars>>

\* ptr := unsafe.Pointer(x); val := uintptr(ptr); val = val^0, and
\* hdr.Data = val; hdr.Len = x.SizeBytes(); hdr.Cap = x.SizeBytes()
StepView ==
  /\ AtStmt({"noescape", "hdr"})
  /\ call' = IF Cur.k = "noescape" THEN [call EXCEPT !.pc = @ + 1]
             ELSE [call EXCEPT !.pc = @ + 1,
                     !.len = IF Cur.conv[1] = "SizeBytes" THEN SizeBytesOf("T") ELSE Cur.n,
                     !.cap = IF Cur.conv[2] = "SizeBytes" THEN SizeBytesOf("T") ELSE Cur.n]
  /\ UNCHANGED <<host, mem, adj, alive, buf, dst, usr, ret, hist>>
  /\ UNCHANGED genVars
  /\ UNCHANGED <<kernVars, testVars>>

\* len, err := task.CopyOutBytes(addr, buf) is entered
StartTransfer ==
  /\ AtStmt({"xfer"})
  /\ ~call.inflight
  /\ call' = [call EXCEPT !.inflight = TRUE, !.moved = 0]
  /\ UNCHANGED <<host, mem, adj, alive, buf, dst, usr, ret, hist>>
  /\ UNCHANGED genVars
  /\ UNCHANGED <<kernVars, testVars>>

\* the transfer moves the next byte of the slice
TransferByte ==
  /\ AtStmt({"xfer"})
  /\ call.inflight
  /\ call.moved < call.len
  /\ call.moved < usr.ok
  /\ call' = [call EXCEPT !.moved = @ + 1]
  /\ IF Cur.m = "CopyInBytes"
     THEN /\ SetRecvMem([RecvMem EXCEPT ![call.moved + 1] = usr.arr[call.moved + 1]], RecvAlive)
          /\ UNCHANGED usr
     ELSE /\ usr' = [usr EXCEPT !.arr[call.moved + 1] = RecvMem[call.moved + 1]]
          /\ UNCHANGED <<mem, adj, alive, dst>>
  /\ UNCHANGED <<host, buf, ret, hist>>
  /\ UNCHANGED genVars
  /\ UNCHANGED <<kernVars, testVars>>

\* the transfer returns: everything was moved, or it faulted
EndTransfer ==
  /\ AtStmt({"xfer"})
  /\ call.inflight
  /\ call.moved = call.len \/ call.moved = usr.ok
  /\ call' = [call EXCEPT !.inflight = FALSE, !.pc = @ + 1,
                          !.n = call.moved, !.err = call.moved < call.len]
  /\ UNCHANGED <<host, mem, adj, alive, buf, dst, usr, ret, hist>>
  /\ UNCHANGED genVars
  /\ UNCHANGED <<kernVars, testVars>>

\* runtime.KeepAlive(x)
KeepAlive ==
  /\ AtStmt({"keepalive"})
  /\ call' = [call EXCEPT !.pc = @ + 1, !.kept = TRUE]
  /\ UNCHANGED <<host, mem, adj, alive, buf, dst, usr, ret, hist>>
  /\ UNCHANGED genVars
  /\ UNCHANGED <<kernVars, testVars>>

\* return len, err
Return ==
  /\ AtStmt({"retlen", "retlen64"})
  /\ ret' = [op |-> call.op, ok |-> TRUE, n |-> call.n, err |-> call.err]
  /\ hist' = [NoHist EXCEPT !.op = call.op, !.req = call.len, !.xn = call.n,
                            !.xerr = call.err, !.modified = call.modified,
                            !.mem = call.mem0]
  /\ call' = Idle
  /\ UNCHANGED <<host, mem, adj, alive, buf, dst, usr>>
  /\ UNCHANGED genVars
  /\ UNCHANGED <<kernVars, testVars>>

\* Another goroutine writes to the instance while the transfer runs.
Mutate ==
  /\ InCall
  /\ call.inflight
  /\ ~call.modified
  /\ RecvAlive
  /\ SetRecvMem([RecvMem EXCEPT ![1] = 90], RecvAlive)
  /\ call' = [call EXCEPT !.modified = TRUE]
  /\ UNCHANGED <<host, buf, usr, ret, hist>>
  /\ UNCHANGED genVars
  /\ UNCHANGED <<kernVars, testVars>>

\* The statements that use the receiver x: until the last of them has run,
\* the garbage collector sees x as live.
UsesRecv == {"noescape", "hdr", "keepalive"}

\* The garbage collector reclaims the receiver (the caller made the call
\* its last use of it) and its memory is reused.
Reclaim ==
  /\ InCall
  /\ RecvAlive
  /\ \A j \in call.pc..Len(MethodBody("T", call.op)) :
        MethodBody("T", call.op)[j].k \notin UsesRecv
  /\ SetRecvMem([i \in 1..Len(RecvMem) |-> 221], FALSE)
  /\ UNCHANGED <<host, buf, usr, call, ret, hist>>
  /\ UNCHANGED genVars
  /\ UNCHANGED <<kernVars, testVars>>

Next ==
  \/ Validate
  \/ Emit
  \/ EmitStruct
  \/ New
  \/ NewBuffer
  \/ CallSizeBytes
  \/ CallPacked
  \/ CallMarshalBytes
  \/ CallUnmarshalBytes
  \/ CallMarshalUnsafe
  \/ CallUnmarshalUnsafe
  \/ Begin
  \/ StepView
  \/ StartTransfer
  \/ TransferByte
  \/ EndTransfer
  \/ KeepAlive
  \/ Return
  \/ Mutate
  \/ Reclaim

Spec == Init /\ [][Next]_vars

(***************************************************************************)
(* Properties.                                                             *)
(***************************************************************************)
\* The instance y after y.UnmarshalBytes(buf) returned.
Unmarshalled == Load("T", dst.mem, host)

\* C1: round trip.  When x.MarshalBytes(buf) has returned and then
\* y.UnmarshalBytes(buf) has returned on the same buffer, y has exactly the
\* value x had: for a newtype over every built-in scalar and for every
\* field of a struct marshalled in declaration order, negative, smallest
\* and largest values included.
C1_RoundTrip ==
  (ret.op = "UnmarshalBytes" /\ ret.ok /\ buf.by = "MarshalBytes") => Unmarshalled = buf.of

\* C1 happens: the fields uint8 = 0x80 and int16 = -32768 of a struct come
\* back.
C1_Witness ==
  /\ ret.op = "UnmarshalBytes"
  /\ ret.ok
  /\ buf.by = "MarshalBytes"
  /\ decl = Struct(<<"uint8", "int16">>)
  /\ buf.of = <<(<<128>>), <<0, 128>>>>
  /\ Unmarshalled = buf.of

\* What the slow path gives for x on a buffer like buf: the array after
\* x.MarshalBytes, and y after y.UnmarshalBytes from it.
SlowBytes == MarshalBytes(mem, FreshBuf(buf.len, Len(buf.arr))).arr

SlowValue == UnmarshalBytes(ZeroDst.mem, [buf EXCEPT !.arr = SlowBytes]).val

\* C2: fast and slow path agree.  For a newtype over a built-in scalar and
\* a buffer of SizeBytes() bytes, x.MarshalUnsafe(buf) then
\* y.UnmarshalUnsafe(buf) leaves in y the value MarshalBytes then
\* UnmarshalBytes give, which is x; and where the host's byte order is
\* ByteOrder, MarshalUnsafe wrote the bytes MarshalBytes writes.
C2_FastSlow ==
  (/\ decl.kind = "newtype"
   /\ decl.under \in Scalars
   /\ buf.by = "MarshalUnsafe"
   /\ buf.len = SizeBytesOf("T"))
  => /\ host = ByteOrder => buf.arr = SlowBytes
     /\ ret.op = "UnmarshalUnsafe" =>
          (Load("T", dst.mem, host) = SlowValue /\ SlowValue = buf.of)

\* C2 happens: a newtype over int32 of value -2^31 went through
\* MarshalUnsafe and UnmarshalUnsafe on a little-endian host.
C2_Witness ==
  /\ decl = Newtype("int32")
  /\ host = "little"
  /\ buf.by = "MarshalUnsafe"
  /\ buf.len = 4
  /\ buf.of = <<0, 0, 0, 128>>
  /\ ret.op = "UnmarshalUnsafe"
  /\ Load("T", dst.mem, host) = buf.of

\* C3: the unsafe methods move SizeBytes() bytes.  For a newtype and a
\* buffer at least SizeBytes() long, x.MarshalUnsafe(dst) changes no byte of
\* dst from index SizeBytes() on (it read nothing behind x), and
\* y.UnmarshalUnsafe(src) changes no byte behind y.
C3_MovesSizeBytes ==
  (/\ decl.kind = "newtype"
   /\ hist.op \in {"MarshalUnsafe", "UnmarshalUnsafe"}
   /\ hist.buf.len >= SizeBytesOf("T"))
  => /\ hist.op = "MarshalUnsafe" =>
          \A i \in (SizeBytesOf("T") + 1)..Len(buf.arr) : buf.arr[i] = hist.buf.arr[i]
     /\ hist.op = "UnmarshalUnsafe" => dst.adj = ZeroDst.adj

\* C3's case happens: a newtype over uint16 and a buffer of 3 bytes.  After
\* x.MarshalUnsafe the third byte of the buffer is the byte behind x, and
\* after y.UnmarshalUnsafe the byte behind y is the third byte of the buffer.
C3_Witness ==
  /\ decl = Newtype("uint16")
  /\ hist.buf.len = 3
  /\ \/ hist.op = "MarshalUnsafe" /\ buf.arr[3] = adj[1] /\ hist.buf.arr[3] # adj[1]
     \/ hist.op = "UnmarshalUnsafe" /\ dst.adj[1] = buf.arr[3] /\ ZeroDst.adj[1] # buf.arr[3]

RECURSIVE Wire(_, _)
\* The wire format of the value v of the type named n: a scalar is its
\* bytes, least significant first; a newtype is its underlying type; a
\* struct is its fields, one after the other.
Wire(n, v) ==
  IF n \in Scalars THEN v
  ELSE IF DeclOf(n).kind = "newtype" THEN Wire(DeclOf(n).under, v)
  ELSE LET RECURSIVE W(_)
           W(i) == IF i = 0 THEN << >> ELSE W(i - 1) \o Wire(DeclOf(n).fields[i], v[i])
       IN  W(Len(DeclOf(n).fields))

\* The size of a field of the type named n in the wire format.
WireSize(n) ==
  CASE n \in {"int8", "uint8", "byte"} -> 1
    [] n \in {"int16", "uint16"} -> 2
    [] n \in {"int32", "uint32"} -> 4
    [] n \in {"int64", "uint64"} -> 8
    [] OTHER -> SizeBytesOf(n)

RECURSIVE WireOffset(_)
\* o_i: the sum of the sizes of the fields of T before field i.
WireOffset(i) == IF i = 1 THEN 0 ELSE WireOffset(i - 1) + WireSize(decl.fields[i - 1])

\* C4: wire format.  After x.MarshalBytes(dst) of a struct, the bytes
\* [o_i, o_i + size(f_i)) of dst hold field i: one byte as it is, a wider
\* scalar least significant byte first whatever the host, a field of
\* another type as that type's MarshalBytes writes it; every other byte of
\* dst is as it was.  Point{x: 1, y: 2} gives 01 00 00 00 02 00 00 00.
C4_WireFormat ==
  (decl.kind = "struct" /\ buf.by = "MarshalBytes")
  => /\ \A i \in 1..Len(decl.fields) :
          SubSeq(buf.arr, WireOffset(i) + 1, WireOffset(i) + WireSize(decl.fields[i]))
            = Wire(decl.fields[i], buf.of[i])
     /\ \A k \in (WireOffset(Len(decl.fields) + 1) + 1)..Len(buf.arr) :
          buf.arr[k] = FreshBuf(buf.len, Len(buf.arr)).arr[k]
     /\ (decl = EnvDecl.Point /\ buf.of = <<(<<1, 0, 0, 0>>), <<2, 0, 0, 0>>>>)
          => SubSeq(buf.arr, 1, 8) = <<1, 0, 0, 0, 2, 0, 0, 0>>

\* C4 happens: on a big-endian host, Point{x: 1, y: 2} was marshalled into
\* a buffer of 9 bytes.
C4_Witness ==
  /\ decl = EnvDecl.Point
  /\ host = "big"
  /\ buf.by = "MarshalBytes"
  /\ buf.len = 9
  /\ mem = <<0, 0, 0, 1, 0, 0, 0, 2>>
  /\ buf.arr = <<1, 0, 0, 0, 2, 0, 0, 0, 238>>

\* C5: the validator's outcome by type name.  Once the underlying type of
\* a newtype has been validated: for 'int', 'uint' and 'string' the tool has
\* aborted with a diagnostic at the position of the type's identifier and
\* nothing is emitted for the type; for every other name, a built-in sized
\* integer or not, there is no diagnostic and no abort.
C5_Validator ==
  (decl.kind = "newtype" /\ phase # "new")
  => /\ decl.under \in {"int", "uint", "string"} =>
          /\ phase = "aborted"
          /\ diag.msg # ""
          /\ diag.pos = Pos(decl)
          /\ out = << >>
     /\ decl.under \notin {"int", "uint", "string"} =>
          /\ phase # "aborted"
          /\ diag = NoDiag

\* C5 happens: a newtype over uint was validated.
C5_Witness ==
  /\ decl = Newtype("uint")
  /\ phase = "aborted"
  /\ diag = [msg |-> "Type 'uint' has ambiguous width, use uint32 or uint64",
             pos |-> Pos(decl)]

\* The encoding of x: what x.MarshalBytes writes to a buffer of
\* SizeBytes() bytes.
Encoding == MarshalBytes(mem, FreshBuf(SizeBytesOf("T"), SizeBytesOf("T"))).arr

\* C6: Packed() is the layout verdict of the type.  Whenever a newtype's
\* Packed() has returned, whatever x holds and whatever was called before:
\* it returned true if the newtype is over a built-in scalar; and if it
\* returned true, the memory of x is byte for byte the encoding
\* x.MarshalBytes writes (on a host whose byte order is ByteOrder, the only
\* host on which memory and encoding of a multi-byte scalar can agree).
C6_Packed ==
  (decl.kind = "newtype" /\ ret.op = "Packed")
  => /\ decl.under \in Scalars => ret.n = 1
     /\ (ret.n = 1 /\ host = ByteOrder) => mem = Encoding

\* C6's case happens: Packed() of a newtype over the struct Padded
\* {uint8; uint16} has returned true; x takes 4 bytes of memory (one of them
\* padding) and SizeBytes() is 3.
C6_Witness ==
  /\ decl = Newtype("Padded")
  /\ host = "little"
  /\ ret.op = "Packed"
  /\ ret.n = 1
  /\ Len(mem) = 4
  /\ Len(Encoding) = 3

\* C7: SizeBytes() is fixed when the code is generated.  Whenever
\* SizeBytes() of a newtype has returned (for any x, before and after
\* MarshalBytes, UnmarshalBytes and the other methods), it returned 1 for
\* int8, uint8 and byte, 2 for int16 and uint16, 4 for int32 and uint32, 8
\* for int64 and uint64, and SizeBytes() of the underlying type otherwise;
\* and when x.MarshalBytes has returned on a buffer, that many bytes of the
\* buffer were written (none of the bytes of x is the 0xEE of a new buffer).
C7_SizeStable ==
  (decl.kind = "newtype" /\ ret.op = "SizeBytes")
  => /\ ret.n = WireSize(decl.under)
     /\ buf.by = "MarshalBytes" =>
          {i \in 1..Len(buf.arr) : buf.arr[i] # 238} = 1..ret.n

\* C7 happens: SizeBytes() of a newtype over uint16 returned 2 after
\* MarshalBytes and UnmarshalBytes on a buffer of 3 bytes.
C7_Witness ==
  /\ decl = Newtype("uint16")
  /\ ret = [op |-> "SizeBytes", ok |-> TRUE, n |-> 2, err |-> FALSE]
  /\ hist.op = "UnmarshalBytes"
  /\ buf.by = "MarshalBytes"
  /\ buf.len = 3

Min(a, b) == IF a <= b THEN a ELSE b

\* How many bytes the foreign side takes or gives of a transfer of
\* SizeBytes() bytes: all of them, or the usr.ok bytes before the fault.
Movable == Min(usr.ok, SizeBytesOf("T"))

\* C8: CopyOut and CopyIn ask for SizeBytes() bytes and return what the
\* transfer returns.  When x.CopyOut or y.CopyIn has returned: the transfer
\* was asked for SizeBytes() bytes; the count returned is the number of
\* bytes that were moved and the error is set exactly if that is fewer than
\* SizeBytes(); the bytes moved are, at the destination, the first bytes of
\* the source, and nothing else was written there.
C8_CopyCounts ==
  (hist.op \in {"CopyOut", "CopyIn"} /\ ret.op = hist.op)
  => /\ hist.req = SizeBytesOf("T")
     /\ ret.n = Movable
     /\ ret.err = (Movable < SizeBytesOf("T"))
     /\ (hist.op = "CopyOut" /\ ~hist.modified) =>
          \A i \in 1..Len(usr.arr) :
             usr.arr[i] = IF i <= Movable THEN hist.mem[i] ELSE 0
     /\ (hist.op = "CopyIn" /\ ~hist.modified /\ dst.alive) =>
          /\ \A i \in 1..Len(dst.mem) :
                dst.mem[i] = IF i <= Movable THEN usr.arr[i] ELSE 0
          /\ dst.adj = ZeroDst.adj

\* C8 happens: CopyOut of a newtype over Point{x: 1, y: 2} to 8 accessible
\* bytes returned (8, nil) and the bytes are 01 00 00 00 02 00 00 00.
C8_Witness ==
  /\ decl = Newtype("Point")
  /\ host = "little"
  /\ hist.op = "CopyOut"
  /\ ret = [op |-> "CopyOut", ok |-> TRUE, n |-> 8, err |-> FALSE]
  /\ SubSeq(usr.arr, 1, 8) = <<1, 0, 0, 0, 2, 0, 0, 0>>

\* C9: MarshalBytes and UnmarshalBytes check the buffer's length.  When
\* either has ended on a buffer: if the buffer was at least SizeBytes()
\* long, no index or slice expression was out of range; if it was shorter,
\* the call ended in a run-time panic, and no byte of the array behind the
\* buffer's length was written.
C9_BoundsChecked ==
  (hist.op \in {"MarshalBytes", "UnmarshalBytes"} /\ ret.op = hist.op)
  => /\ hist.buf.len >= SizeBytesOf("T") => ret.ok
     /\ hist.buf.len < SizeBytesOf("T") =>
          /\ ~ret.ok
          /\ \A i \in (buf.len + 1)..Len(buf.arr) : buf.arr[i] = hist.buf.arr[i]

\* C9's case happens: MarshalBytes of a newtype over uint16 on a buffer of
\* length 1 and capacity 2 returned without a panic, and wrote the byte
\* behind the buffer's length.
C9_Witness ==
  /\ decl = Newtype("uint16")
  /\ hist.op = "MarshalBytes"
  /\ hist.buf.len = 1
  /\ Len(buf.arr) = 2
  /\ ret = [op |-> "MarshalBytes", ok |-> TRUE, n |-> 0, err |-> FALSE]
  /\ buf.arr[2] # hist.buf.arr[2]

\* C10: the lifetime of the view.  In CopyOut, CopyIn and WriteTo, while the
\* transfer runs the view has SizeBytes() for length and capacity, the
\* receiver has not been reclaimed and KeepAlive has not run yet; when the
\* method is about to return, the transfer has returned and KeepAlive has
\* run; and if nothing wrote to x during the call, the bytes CopyOut and
\* WriteTo handed over are the bytes x had when the call began.
C10_ViewLifetime ==
  /\ (InCall /\ call.inflight) =>
       /\ RecvAlive
       /\ ~call.kept
       /\ call.len = SizeBytesOf("T")
       /\ call.cap = SizeBytesOf("T")
  /\ AtStmt({"retlen", "retlen64"}) => (call.kept /\ ~call.inflight)
  /\ (hist.op \in {"CopyOut", "WriteTo"} /\ ~hist.modified) =>
       SubSeq(usr.arr, 1, hist.xn) = SubSeq(hist.mem, 1, hist.xn)

\* C10 happens: WriteTo of a newtype over int32 wrote the 4 bytes x had,
\* and x was reclaimed between KeepAlive and the return.
C10_Witness ==
  /\ decl = Newtype("int32")
  /\ hist.op = "WriteTo"
  /\ ~hist.modified
  /\ hist.xn = 4
  /\ SubSeq(usr.arr, 1, 4) = hist.mem
  /\ ~alive

\* The encoding of an instance whose memory is m.
EncodingOf(m) == MarshalBytes(m, FreshBuf(SizeBytesOf("T"), SizeBytesOf("T"))).arr

\* C11: WriteTo writes the encoding of x.  When x.WriteTo(w) has returned:
\* its body called w.Write once, with SizeBytes() bytes; the count returned
\* is the number of bytes the writer took and the error is the writer's (set
\* exactly if it took fewer than SizeBytes()); and, nothing having written
\* to x meanwhile, the bytes the writer took are the first bytes of the
\* encoding x.MarshalBytes writes (on a host whose byte order is ByteOrder).
C11_WriteTo ==
  (hist.op = "WriteTo" /\ ret.op = "WriteTo")
  => /\ Cardinality({i \in 1..Len(MethodBody("T", "WriteTo")) :
                       MethodBody("T", "WriteTo")[i].k = "xfer"}) = 1
     /\ hist.req = SizeBytesOf("T")
     /\ ret.n = Movable
     /\ ret.err = (Movable < SizeBytesOf("T"))
     /\ (~hist.modified /\ host = ByteOrder) =>
          \A i \in 1..Movable : usr.arr[i] = EncodingOf(hist.mem)[i]

\* C11's case happens: WriteTo of a newtype over the struct Padded
\* {uint8; uint16} of value {1, 2} returned (3, nil) on a little-endian
\* host; the writer was given 01 AA 02, the byte of x, the padding byte and
\* the low byte of the second field, where the encoding is 01 02 00.
C11_Witness ==
  /\ decl = Newtype("Padded")
  /\ host = "little"
  /\ hist.op = "WriteTo"
  /\ ret = [op |-> "WriteTo", ok |-> TRUE, n |-> 3, err |-> FALSE]
  /\ ~hist.modified
  /\ SubSeq(usr.arr, 1, 3) = <<1, 170, 2>>
  /\ EncodingOf(hist.mem) = <<1, 2, 0>>

(***************************************************************************)
(* The generator's field code, one call at a time: marshalScalar and       *)
(* unmarshalScalar called on the fields of a struct in any order, each any *)
(* number of times up to MaxCalls calls in all.                            *)
(***************************************************************************)
\* How many calls of marshalScalar and unmarshalScalar a run makes.
MaxCalls == 3

FieldsInit ==
  /\ decl \in {d \in Decls : d.kind = "struct"}
  /\ phase = "fields"
  /\ diag = NoDiag
  /\ is = newInterfaceGenerator("T").is
  /\ ms = newInterfaceGenerator("T").ms
  /\ as = newInterfaceGenerator("T").as
  /\ out = newInterfaceGenerator("T").out
  /\ env = [n \in EnvTypes |-> Generate(n, EnvDecl[n]).out]
  /\ host = "little"
  /\ mem = << >>
  /\ adj = << >>
  /\ alive = FALSE
  /\ buf = NoBuf
  /\ dst = NoDst
  /\ usr = NoUsr
  /\ call = Idle
  /\ ret = NoRet
  /\ hist = NoHist
  /\ NoKernel
  /\ NoTest

\* g.marshalScalar(g.fieldAccessor(f), type of f, "dst") for the i-th field f
MarshalField ==
  /\ phase = "fields"
  /\ Len(out) < 2 * MaxCalls
  /\ \E i \in 1..Len(decl.fields) : SetG(marshalScalar(G, i, decl.fields[i], "dst"))
  /\ UNCHANGED <<decl, phase, diag, env>>
  /\ UNCHANGED runVars
  /\ UNCHANGED <<kernVars, testVars>>

\* g.unmarshalScalar(g.fieldAccessor(f), type of f, "src") for the i-th field f
UnmarshalField ==
  /\ phase = "fields"
  /\ Len(out) < 2 * MaxCalls
  /\ \E i \in 1..Len(decl.fields) : SetG(unmarshalScalar(G, i, decl.fields[i], "src"))
  /\ UNCHANGED <<decl, phase, diag, env>>
  /\ UNCHANGED runVars
  /\ UNCHANGED <<kernVars, testVars>>

FieldsNext == MarshalField \/ UnmarshalField

SpecFields == FieldsInit /\ [][FieldsNext]_vars

\* The fields the emitted code touches so far.
Touched == {i \in 1..Len(decl.fields) : \E j \in 1..Len(out) : out[j].acc = i}

\* C12: the potentially non-packed fields.  Whatever calls of marshalScalar
\* and unmarshalScalar the generator has made on the fields of a struct, as
\* holds the accessor of every field touched whose type is not a built-in
\* sized integer, be it by marshalScalar only, and of no field whose type
\* is one.
C12_Offending ==
  phase = "fields"
  => \A i \in 1..Len(decl.fields) :
        /\ (i \in Touched /\ decl.fields[i] \notin Scalars) => i \in as
        /\ decl.fields[i] \in Scalars => i \notin as

\* C12's case happens: marshalScalar was called on a field of type Point
\* and unmarshalScalar was not; the field is not in as.
C12_Witness ==
  /\ phase = "fields"
  /\ decl = Struct(<<"Point">>)
  /\ Len(out) = 2
  /\ out[1].k = "marshal"
  /\ out[1].acc = 1
  /\ as = {}

\* The type whose method a statement of a method of the type named tn
\* calls ("" if it calls none).
Callee(tn, s) ==
  IF s.k \in {"marshal", "unmarshal"} THEN (IF s.typ # "" THEN s.typ ELSE TypeOfAcc(tn, s.acc))
  ELSE IF s.k \in {"returnsize", "addsize"} THEN s.typ
  ELSE ""

\* What MarshalBytes of the underlying type writes for the value of x to
\* the first SizeBytes() bytes of a buffer like buf.
UnderMarshal ==
  Run(decl.under, MethodBody(decl.under, "MarshalBytes"),
      [arr |-> FreshBuf(buf.len, Len(buf.arr)).arr, off |-> 0, len |-> SizeBytesOf("T"),
       ok |-> TRUE, val |-> buf.of]).arr

\* C13: no self-recursion.  For a newtype over a type that is no built-in
\* scalar, every call in the emitted SizeBytes, MarshalBytes and
\* UnmarshalBytes is to the method of the underlying type, and no method
\* reached from there calls one of the newtype; so the calls end: SizeBytes
\* returned the underlying type's size, MarshalBytes wrote what the
\* underlying type's MarshalBytes writes, and UnmarshalBytes read it back.
C13_NoSelfRecursion ==
  (decl.kind = "newtype" /\ decl.under \notin Scalars /\ phase = "emitted")
  => /\ \A i \in 1..Len(out) : Callee("T", out[i]) \in {"", decl.under}
     /\ \A n \in EnvTypes : \A i \in 1..Len(env[n]) : Callee(n, env[n][i]) # "T"
     /\ ret.op = "SizeBytes" => ret.n = SizeBytesOf(decl.under)
     /\ buf.by = "MarshalBytes" => buf.arr = UnderMarshal
     /\ (ret.op = "UnmarshalBytes" /\ ret.ok /\ buf.by = "MarshalBytes") =>
          Unmarshalled = buf.of

\* C13 happens: T is a newtype over Fd, itself a newtype over int32;
\* x = -2^31 was marshalled and unmarshalled, and SizeBytes returned 4.
C13_Witness ==
  /\ decl = Newtype("Fd")
  /\ hist.op = "UnmarshalBytes"
  /\ buf.by = "MarshalBytes"
  /\ buf.of = <<0, 0, 0, 128>>
  /\ Unmarshalled = buf.of
  /\ ret = [op |-> "SizeBytes", ok |-> TRUE, n |-> 4, err |-> FALSE]

\* The external packages one emitted statement names in its text.
Referenced(s) ==
  CASE s.k = "func" /\ s.m \in {"CopyOut", "CopyIn"} -> {"marshal", "usermem"}
    [] s.k = "func" /\ s.m = "WriteTo" -> {"io"}
    [] s.k \in {"put", "get"} -> {"usermem"}
    [] s.k \in {"safecopyin", "safecopyout"} -> {"safecopy", "unsafe"}
    [] s.k = "noescape" -> {"unsafe"}
    [] s.k = "hdr" -> {"reflect", "unsafe"}
    [] s.k = "keepalive" -> {"runtime"}
    [] OTHER -> {}

\* The external packages the emitted code names.
ReferencedBy(code) == UNION {Referenced(code[i]) : i \in 1..Len(code)}

\* C14: import bookkeeping.  Once emitMarshallableForPrimitiveNewtype has
\* run, is holds exactly the external packages the emitted code names, and
\* ms holds the type's own name.
C14_Imports ==
  (decl.kind = "newtype" /\ phase = "emitted")
  => /\ is = ReferencedBy(out)
     /\ "T" \in ms

\* C14 happens: the methods of type T uint16 were emitted; they name
\* reflect and runtime, and is holds neither.
C14_Witness ==
  /\ decl = Newtype("uint16")
  /\ phase = "emitted"
  /\ ReferencedBy(out) = {"usermem", "safecopy", "unsafe", "marshal", "io", "reflect", "runtime"}
  /\ is = {"usermem", "safecopy", "unsafe", "marshal", "io"}
  /\ "T" \in ms

(***************************************************************************)
(* The descriptor syscalls of package vfs2.                                *)
(***************************************************************************)

\* The descriptor limit of the task: its descriptors are 0..MaxFD-1.
MaxFD == 2

FDs == 0..(MaxFD - 1)

\* The file descriptions that can exist at once: one per descriptor and
\* the one a syscall is opening.
Files == 1..(MaxFD + 1)

\* linux.O_CLOEXEC and another flag bit, a flag word being the set of its bits.
OpenFlags == {{}, {"O_CLOEXEC"}, {"O_NONBLOCK"}, {"O_CLOEXEC", "O_NONBLOCK"}}

NoEntry == [file |-> 0, cloexec |-> FALSE]

\* No generator and no generated code is running.
NoGenerator ==
  /\ decl = Newtype("uint8")
  /\ phase = ""
  /\ diag = NoDiag
  /\ is = {}
  /\ ms = {}
  /\ as = {}
  /\ out = << >>
  /\ env = << >>
  /\ host = "little"
  /\ mem = << >>
  /\ adj = << >>
  /\ alive = FALSE
  /\ buf = NoBuf
  /\ dst = NoDst
  /\ usr = NoUsr
  /\ call = Idle
  /\ ret = NoRet
  /\ hist = NoHist

\* The kernel at the entry of a syscall: the table, the reference counts,
\* and, for the syscall, the references it acquired (acq) and released
\* (rel) so far and the number of lookups in the table.
Kern == [tab |-> fdTable, refs |-> refs, acq |-> << >>, rel |-> << >>, looked |-> 0]

Res(r, e, K) == [ret |-> r, err |-> e, K |-> K]

\* file.DecRef() by the syscall.
DecRef(K, f) == [K EXCEPT !.refs[f] = @ - 1, !.rel = Append(@, f)]

\* t.GetFileVFS2(fd): the file of fd with a reference for the caller, or nil.
GetFileVFS2(K, fd) ==
  IF fd \in FDs /\ K.tab[fd].file # 0
  THEN [file |-> K.tab[fd].file,
        K |-> [K EXCEPT !.refs[K.tab[fd].file] = @ + 1,
                        !.acq = Append(@, K.tab[fd].file),
                        !.looked = @ + 1]]
  ELSE [file |-> 0, K |-> [K EXCEPT !.looked = @ + 1]]

\* t.FDTable().Remove(fd): frees fd and hands the table's reference on its
\* file to the caller, or returns nil.
Remove(K, fd) ==
  IF fd \in FDs /\ K.tab[fd].file # 0
  THEN [file |-> K.tab[fd].file,
        K |-> [K EXCEPT !.tab[fd] = NoEntry, !.acq = Append(@, K.tab[fd].file)]]
  ELSE [file |-> 0, K |-> K]

\* t.NewFDFromVFS2(minfd, file, flags): installs file at the lowest free
\* descriptor from minfd on, the table taking a reference of its own.
NewFDFromVFS2(K, minfd, f, cloexec) ==
  LET free == {fd \in FDs : fd >= minfd /\ K.tab[fd].file = 0}
  IN  IF free = {} THEN [fd |-> -1, err |-> "EMFILE", K |-> K]
      ELSE LET fd == CHOOSE x \in free : \A y \in free : x <= y
           IN  [fd |-> fd, err |-> "",
                K |-> [K EXCEPT !.tab[fd] = [file |-> f, cloexec |-> cloexec],
                                !.refs[f] = @ + 1]]

\* t.NewFDAtVFS2(fd, file, flags): installs file at fd, the table taking a
\* reference of its own and dropping the one on the file fd had.
NewFDAtVFS2(K, fd, f, cloexec) ==
  IF fd < 0 THEN [err |-> "EBADF", K |-> K]
  ELSE IF fd >= MaxFD THEN [err |-> "EMFILE", K |-> K]
  ELSE LET k1 == [K EXCEPT !.refs[f] = @ + 1]
           old == K.tab[fd].file
           k2 == IF old # 0 THEN [k1 EXCEPT !.refs[old] = @ - 1] ELSE k1
       IN  [err |-> "", K |-> [k2 EXCEPT !.tab[fd] = [file |-> f, cloexec |-> cloexec]]]

\* VFS().OpenAt: a new file description with one reference, the caller's.
OpenAt(K) ==
  LET f == CHOOSE x \in Files : K.refs[x] = 0 /\ \A y \in Files : K.refs[y] = 0 => x <= y
  IN  [file |-> f, K |-> [K EXCEPT !.refs[f] = 1, !.acq = Append(@, f)]]

\* openat; path is how copyInPath, getTaskPathOperation and OpenAt end:
\* "EFAULT", "ENOTDIR", "ENOENT" or "".
openat(K, path, flags) ==
  IF path = "EFAULT" THEN Res(0, path, K)
  ELSE IF path = "ENOTDIR" THEN Res(0, path, K)
  ELSE IF path = "ENOENT" THEN Res(0, path, K)
  ELSE LET o == OpenAt(K)
           n == NewFDFromVFS2(o.K, 0, o.file, "O_CLOEXEC" \in flags)
       IN  Res(n.fd, n.err, DecRef(n.K, o.file))

\* A faulty dup3: it looks oldfd up before it checks the flags.
dup3LateFlags(K, oldfd, newfd, flags) ==
  LET g == GetFileVFS2(K, oldfd)
  IN  IF g.file = 0 THEN Res(0, "EBADF", g.K)
      ELSE IF flags \ {"O_CLOEXEC"} # {} THEN Res(0, "EINVAL", DecRef(g.K, g.file))
      ELSE LET n == NewFDAtVFS2(g.K, newfd, g.file, "O_CLOEXEC" \in flags)
           IN  IF n.err # "" THEN Res(0, n.err, DecRef(n.K, g.file))
               ELSE Res(newfd, "", DecRef(n.K, g.file))

\* A faulty dup3: it returns an error of NewFDAtVFS2 without file.DecRef().
dup3Leak(K, oldfd, newfd, flags) ==
  IF flags \ {"O_CLOEXEC"} # {} THEN Res(0, "EINVAL", K)
  ELSE LET g == GetFileVFS2(K, oldfd)
       IN  IF g.file = 0 THEN Res(0, "EBADF", g.K)
           ELSE LET n == NewFDAtVFS2(g.K, newfd, g.file, "O_CLOEXEC" \in flags)
                IN  IF n.err # "" THEN Res(0, n.err, n.K)
                    ELSE Res(newfd, "", DecRef(n.K, g.file))

dup3(K, oldfd, newfd, flags) ==
  IF flags \ {"O_CLOEXEC"} # {} THEN Res(0, "EINVAL", K)
  ELSE LET g == GetFileVFS2(K, oldfd)
       IN  IF g.file = 0 THEN Res(0, "EBADF", g.K)
           ELSE LET n == NewFDAtVFS2(g.K, newfd, g.file, "O_CLOEXEC" \in flags)
                IN  IF n.err # "" THEN Res(0, n.err, DecRef(n.K, g.file))
                    ELSE Res(newfd, "", DecRef(n.K, g.file))

\* The syscall returns: the kernel state it leaves and its record.
Returns(op, oldfd, newfd, flags, r) ==
  /\ fdTable' = r.K.tab
  /\ refs' = r.K.refs
  /\ sys' = [op |-> op, oldfd |-> oldfd, newfd |-> newfd, flags |-> flags,
             ret |-> r.ret, err |-> r.err, acq |-> r.K.acq, rel |-> r.K.rel,
             looked |-> r.K.looked, tab0 |-> fdTable]

\* The descriptors a task passes: the valid ones, -1 and the limit.
FDArgs == -1..MaxFD

KernInit ==
  /\ fdTable = [fd \in FDs |-> NoEntry]
  /\ refs = [f \in Files |-> 0]
  /\ sys = NoSys
  /\ NoGenerator
  /\ NoTest

\* Open, Openat and Creat
Openat ==
  /\ \E path \in {"EFAULT", "ENOTDIR", "ENOENT", ""}, flags \in OpenFlags :
       Returns("openat", 0, 0, flags, openat(Kern, path, flags))
  /\ UNCHANGED <<genVars, runVars, testVars>>

\* Close; onclose is what file.OnClose and HandleIOErrorVFS2 make of it.
Close ==
  /\ \E fd \in FDArgs, onclose \in {"", "EIO"} :
       LET r == Remove(Kern, fd)
       IN  Returns("Close", fd, fd, {},
                   IF r.file = 0 THEN Res(0, "EBADF", r.K)
                   ELSE Res(0, onclose, DecRef(r.K, r.file)))
  /\ UNCHANGED <<genVars, runVars, testVars>>

Dup ==
  /\ \E fd \in FDArgs :
       LET g == GetFileVFS2(Kern, fd)
       IN  Returns("Dup", fd, fd, {},
                   IF g.file = 0 THEN Res(0, "EBADF", g.K)
                   ELSE LET n == NewFDFromVFS2(g.K, 0, g.file, FALSE)
                        IN  IF n.err # "" THEN Res(0, "EMFILE", DecRef(n.K, g.file))
                            ELSE Res(n.fd, "", DecRef(n.K, g.file)))
  /\ UNCHANGED <<genVars, runVars, testVars>>

Dup2 ==
  /\ \E oldfd \in FDArgs, newfd \in FDArgs :
       Returns("Dup2", oldfd, newfd, {},
               IF oldfd = newfd
               THEN LET g == GetFileVFS2(Kern, oldfd)
                    IN  IF g.file = 0 THEN Res(0, "EBADF", g.K)
                        ELSE Res(newfd, "", DecRef(g.K, g.file))
               ELSE dup3(Kern, oldfd, newfd, {}))
  /\ UNCHANGED <<genVars, runVars, testVars>>

Dup3 ==
  /\ \E oldfd \in FDArgs, newfd \in FDArgs, flags \in OpenFlags :
       Returns("Dup3", oldfd, newfd, flags,
               IF oldfd = newfd THEN Res(0, "EINVAL", Kern)
               ELSE dup3(Kern, oldfd, newfd, flags))
  /\ UNCHANGED <<genVars, runVars, testVars>>

KernNext == Openat \/ Close \/ Dup \/ Dup2 \/ Dup3

SpecKern == KernInit /\ [][KernNext]_vars

\* Whether fd was open when the last syscall was entered.
WasOpen(fd) == fd \in FDs /\ sys.tab0[fd].file # 0

\* C15: duplicating a descriptor onto itself.  Dup2 with oldfd = newfd
\* returns newfd when oldfd is open and EBADF when it is not; Dup3 with
\* oldfd = newfd returns EINVAL; dup3 with a flag bit other than O_CLOEXEC
\* returns EINVAL without having looked oldfd up; in all of them the
\* descriptor table is what it was.
C15_SelfDup ==
  /\ (sys.op = "Dup2" /\ sys.oldfd = sys.newfd)
     => /\ fdTable = sys.tab0
        /\ WasOpen(sys.oldfd) => (sys.err = "" /\ sys.ret = sys.newfd)
        /\ ~WasOpen(sys.oldfd) => sys.err = "EBADF"
  /\ (sys.op = "Dup3" /\ sys.oldfd = sys.newfd)
     => (sys.err = "EINVAL" /\ fdTable = sys.tab0)
  /\ (sys.op \in {"Dup2", "Dup3"} /\ sys.flags \ {"O_CLOEXEC"} # {})
     => (sys.err = "EINVAL" /\ sys.looked = 0 /\ fdTable = sys.tab0)

\* C15 happens: descriptor 1, open on file 2 with close-on-exec set, was
\* duplicated onto itself by Dup2, which returned 1.
C15_Witness ==
  /\ sys.op = "Dup2"
  /\ sys.oldfd = 1
  /\ sys.newfd = 1
  /\ sys.err = ""
  /\ sys.ret = 1
  /\ sys.tab0[0].file = 1
  /\ fdTable[1] = [file |-> 2, cloexec |-> TRUE]

\* C16: file reference balance.  Every syscall has released, once each,
\* the references it acquired; the reference count of every file is the
\* number of descriptors that refer to it; Close of a descriptor that is
\* not open returns EBADF and has released nothing.
C16_RefBalance ==
  /\ sys.rel = sys.acq
  /\ \A f \in Files : refs[f] = Cardinality({fd \in FDs : fdTable[fd].file = f})
  /\ (sys.op = "Close" /\ ~WasOpen(sys.oldfd))
     => (sys.err = "EBADF" /\ sys.rel = << >> /\ fdTable = sys.tab0)

\* C16 happens: Dup2 of descriptor 0 onto the descriptor limit failed with
\* EMFILE after it had taken a reference on file 1, and released it.
C16_Witness ==
  /\ sys.op = "Dup2"
  /\ sys.oldfd = 0
  /\ sys.newfd = MaxFD
  /\ sys.err = "EMFILE"
  /\ sys.acq = <<1>>
  /\ sys.rel = <<1>>
  /\ refs[1] = 2
  /\ fdTable[1].file = 1

(***************************************************************************)
(* The set-up of the crictl tests.                                         *)
(***************************************************************************)

\* The registered cleanup functions, in the order setup appends them:
\* os.RemoveAll(containerdRoot), os.RemoveAll(containerdState),
\* configCleanup, the dump of containerd's output, and cc.CleanUp with
\* testutil.KillCommand(cmd).
Registered == <<"rmroot", "rmstate", "rmconfig", "logs", "kill">>

At(pc) == step.pc = pc /\ step.by = "setup"

Goto(pc) == step' = [step EXCEPT !.pc = pc]

\* cleanups = append(cleanups, f)
Register(f) == cleanups' = Append(cleanups, f)

\* t.Fatalf(msg): the function ends and its deferred calls run.
Fatalf(msg) == step' = [step EXCEPT !.pc = "fatal", !.msg = msg]

\* A faulty loop of cleanupFunc: from the first cleanup to the last.
cleanupFuncForward(cs) == [k \in 1..Len(cs) |-> k - 1]

\* cleanupFunc: the indices of cleanups (from 0) in the order its loop
\* visits them.
cleanupFunc(cs) == [k \in 1..Len(cs) |-> Len(cs) - k]

\* specutils.Cleanup: Clean calls the function it was made with unless
\* Release was called before.
CleanCalls(rel) == ~rel

SetupInit ==
  /\ cleanups = << >>
  /\ released = FALSE
  /\ step = [pc |-> "root", i |-> 0, by |-> "setup", msg |-> ""]
  /\ ran = << >>
  /\ cmd = "none"
  /\ NoGenerator
  /\ NoKernel

\* ioutil.TempDir for the containerd root
TempDirRoot ==
  /\ At("root")
  /\ \/ Goto("state") /\ Register("rmroot")
     \/ Fatalf("failed to create containerd root") /\ UNCHANGED cleanups
  /\ UNCHANGED <<released, ran, cmd>>
  /\ UNCHANGED <<genVars, runVars, kernVars>>

\* ioutil.TempDir for the containerd state
TempDirState ==
  /\ At("state")
  /\ \/ Goto("runtime") /\ Register("rmstate")
     \/ Fatalf("failed to create containerd state") /\ UNCHANGED cleanups
  /\ UNCHANGED <<released, ran, cmd>>
  /\ UNCHANGED <<genVars, runVars, kernVars>>

\* dockerutil.RuntimePath
RuntimePath ==
  /\ At("runtime")
  /\ \/ Goto("config")
     \/ Fatalf("error discovering runtime path")
  /\ UNCHANGED <<cleanups, released, ran, cmd>>
  /\ UNCHANGED <<genVars, runVars, kernVars>>

\* testutil.WriteTmpFile for the containerd configuration
WriteTmpFile ==
  /\ At("config")
  /\ \/ Goto("logs") /\ Register("rmconfig")
     \/ Fatalf("failed to write containerd config") /\ UNCHANGED cleanups
  /\ UNCHANGED <<released, ran, cmd>>
  /\ UNCHANGED <<genVars, runVars, kernVars>>

\* exec.Command, the pipe, and the cleanup that logs containerd's output
Command ==
  /\ At("logs")
  /\ Goto("start")
  /\ Register("logs")
  /\ UNCHANGED <<released, ran, cmd>>
  /\ UNCHANGED <<genVars, runVars, kernVars>>

\* cmd.Start
Start ==
  /\ At("start")
  /\ \/ Goto("wait") /\ cmd' = "running"
     \/ Fatalf("failed running containerd") /\ UNCHANGED cmd
  /\ UNCHANGED <<cleanups, released, ran>>
  /\ UNCHANGED <<genVars, runVars, kernVars>>

\* testutil.WaitUntilRead for "Start streaming server"
WaitUntilRead ==
  /\ At("wait")
  /\ \/ Goto("kill")
     \/ Fatalf("failed to start containerd")
  /\ UNCHANGED <<cleanups, released, ran, cmd>>
  /\ UNCHANGED <<genVars, runVars, kernVars>>

\* criutil.NewCrictl and the cleanup that kills containerd
NewCrictl ==
  /\ At("kill")
  /\ Goto("release")
  /\ Register("kill")
  /\ UNCHANGED <<released, ran, cmd>>
  /\ UNCHANGED <<genVars, runVars, kernVars>>

\* cleanup.Release()
Release ==
  /\ At("release")
  /\ Goto("return")
  /\ released' = TRUE
  /\ UNCHANGED <<cleanups, ran, cmd>>
  /\ UNCHANGED <<genVars, runVars, kernVars>>

\* The deferred cleanup.Clean(), when setup returns or has failed: it calls
\* cleanupFunc unless Release was called.  After the return the test goes on.
Clean ==
  /\ step.by = "setup"
  /\ step.pc \in {"return", "fatal"}
  /\ step' = IF CleanCalls(released) THEN [step EXCEPT !.pc = "cleanupFunc", !.i = 0]
             ELSE IF step.pc = "fatal" THEN [step EXCEPT !.pc = "done"]
             ELSE [step EXCEPT !.pc = "StartPodAndContainer", !.by = "test"]
  /\ UNCHANGED <<cleanups, released, ran, cmd>>
  /\ UNCHANGED <<genVars, runVars, kernVars>>

\* One iteration of the loop of cleanupFunc, or its end.  The errors of
\* os.RemoveAll and of configCleanup are dropped, the one of KillCommand is
\* logged.
RunCleanup ==
  /\ step.pc = "cleanupFunc"
  /\ IF step.i < Len(cleanups)
     THEN \E ok \in BOOLEAN :
            LET f == cleanups[cleanupFunc(cleanups)[step.i + 1] + 1]
            IN  /\ f = "logs" => ok
                /\ ran' = Append(ran, [f |-> f, by |-> step.by, ok |-> ok])
                /\ cmd' = IF f = "kill" /\ ok THEN "killed" ELSE cmd
                /\ step' = [step EXCEPT !.i = @ + 1]
     ELSE /\ step' = [step EXCEPT !.pc = "done"]
          /\ UNCHANGED <<ran, cmd>>
  /\ UNCHANGED <<cleanups, released>>
  /\ UNCHANGED <<genVars, runVars, kernVars>>

\* TestCrictlSanity after setup: start, look for the page, stop.
TestStep ==
  /\ step.by = "test"
  /\ \/ /\ step.pc = "StartPodAndContainer"
        /\ Goto("httpGet") \/ Fatalf("start failed")
     \/ /\ step.pc = "httpGet"
        /\ Goto("StopPodAndContainer") \/ Fatalf("failed to get page")
     \/ /\ step.pc = "StopPodAndContainer"
        /\ Goto("end") \/ Fatalf("stop failed")
  /\ UNCHANGED <<cleanups, released, ran, cmd>>
  /\ UNCHANGED <<genVars, runVars, kernVars>>

\* The test's deferred cleanup(), at its end or after a t.Fatalf
DeferredCleanup ==
  /\ step.by = "test"
  /\ step.pc \in {"end", "fatal"}
  /\ step' = [step EXCEPT !.pc = "cleanupFunc", !.i = 0]
  /\ UNCHANGED <<cleanups, released, ran, cmd>>
  /\ UNCHANGED <<genVars, runVars, kernVars>>

SetupNext ==
  \/ TempDirRoot
  \/ TempDirState
  \/ RuntimePath
  \/ WriteTmpFile
  \/ Command
  \/ Start
  \/ WaitUntilRead
  \/ NewCrictl
  \/ Release
  \/ Clean
  \/ RunCleanup
  \/ TestStep
  \/ DeferredCleanup

SpecSetup == SetupInit /\ [][SetupNext]_vars

\* C17: the cleanup stack of setup.  The cleanups run are, in order, the
\* registered ones from the last to the first, none twice, and all of them
\* once the run is over; setup runs them if it failed before Release, and
\* only the returned function does if it succeeded; so once the kill of
\* containerd is registered it is the last one, and it runs before the log
\* dump and the removal of the config file and the directories.
C17_CleanupStack ==
  /\ Len(ran) <= Len(cleanups)
  /\ \A k \in 1..Len(ran) :
       /\ ran[k].f = cleanups[Len(cleanups) + 1 - k]
       /\ ran[k].by = (IF released THEN "test" ELSE "setup")
  /\ \A j, k \in 1..Len(ran) : ran[j].f = ran[k].f => j = k
  /\ step.pc = "done" => Len(ran) = Len(cleanups)
  /\ (released /\ step.by = "setup") => ran = << >>
  /\ released => cleanups = Registered
  /\ \A k \in 1..Len(cleanups) : cleanups[k] = Registered[k]
  /\ \A k \in 1..Len(ran) :
       (cleanups = Registered /\ ran[k].f # "kill") => (k > 1 /\ ran[1].f = "kill")

\* C17 happens: setup succeeded, the test failed at httpGet, and the
\* returned function has run all five cleanups, the kill first.
C17_Witness ==
  /\ step.pc = "done"
  /\ step.by = "test"
  /\ step.msg = "failed to get page"
  /\ released
  /\ cmd = "killed"
  /\ Len(ran) = 5
  /\ ran[1].f = "kill"
  /\ ran[2].f = "logs"
  /\ ran[5].f = "rmroot"

====
